---- MODULE Spec2Model ----
(***************************************************************************)
(* A model of the PDF table pipeline: the four tools of                    *)
(* src/tools/pdf_tools.py, the agent executor configured in src/agent.py   *)
(* and the per-document driver of src/main.py.                             *)
(*                                                                         *)
(* Texts (Python str) are sequences of one-character strings, so that      *)
(* index, slicing, replace, strip and startswith are computed character by *)
(* character as the interpreter computes them.                             *)
(***************************************************************************)
EXTENDS Integers, Sequences, FiniteSets, TLC

VARIABLES
    generated_csv,   \* FinalOutputTool._run: its argument
    clean_csv,       \* FinalOutputTool._run: the value it returned
    finPc,           \* "off" | "call" | "done"
    access,          \* PDFTableExtractorTool._run: what the path leads to
    document,        \* the pages pdfplumber yields, each the tables extract_tables() yields
    all_tables_as_csv,  \* PDFTableExtractorTool._run: the list it returned
    extPc,           \* "off" | "call" | "done"
    tables_as_csv,   \* TableSelectorTool._run: its argument
    response,        \* TableSelectorTool._run: response.content, the model's answer
    selected,        \* TableSelectorTool._run: the value it returned
    selPc,           \* "off" | "call" | "done"
    raw_csv_data,    \* CSVGeneratorTool._run: its argument
    formatted,       \* CSVGeneratorTool._run: the value it returned
    reformatted,     \* CSVGeneratorTool._run: the value it returned for its own output
    genPc,           \* "off" | "call" | "once" | "twice"
    runPc,           \* process_pdf_with_agent: "off" | "invoke" (the model is asked) | "tools" | "done"
    iterations,      \* AgentExecutor: iterations of its loop so far
    toolCalls,       \* history: tool invocations of the run so far
    completed,       \* history: the tools that have returned a result that is no error
    lastTool,        \* history: the tool invoked last, "none" before the first
    pending,         \* AgentExecutor: tool calls of the current message still to run
    ended,           \* how invoke ended: "none" | "finish" | "exhausted" | "raised"
    output,          \* result['output'] of the executor
    outcome,         \* process_pdf_with_agent: "none" | "success" (a DataFrame) | "failure" (None)
    pdf_files,       \* __main__: the number of PDF files of the directory, the files are 1..pdf_files
    future_to_pdf,   \* file -> state of its future: "queued" | "running" | "done"
    runEnded,        \* history, file -> how its run ended: "none" | "ok" | "invalid" | "exhausted" | "raised"
    results,         \* file -> what its future holds
    yielded,         \* the files whose future as_completed has yielded
    all_dataframes,  \* the list of line 55
    master_df,       \* the rows of the combined frame of line 73
    batchPc          \* __main__: "off" | "pool" | "combined" | "nodata" | "crashed"

finVars == <<generated_csv, clean_csv, finPc>>
extVars == <<access, document, all_tables_as_csv, extPc>>
selVars == <<tables_as_csv, response, selected, selPc>>
genVars == <<raw_csv_data, formatted, reformatted, genPc>>

runVars == <<runPc, iterations, pending, toolCalls, completed, lastTool, ended, output, outcome>>

batVars ==
    <<pdf_files, future_to_pdf, runEnded, results, yielded, all_dataframes, master_df, batchPc>>

vars == <<finVars, extVars, selVars, genVars, runVars, batVars>>

\* A component that takes no part in a specification rests in its "off" state.
FinalOff == generated_csv = <<>> /\ clean_csv = <<>> /\ finPc = "off"

ExtractOff ==
    access = "readable" /\ document = <<>> /\ all_tables_as_csv = <<>> /\ extPc = "off"

SelectOff == tables_as_csv = <<>> /\ response = <<>> /\ selected = <<>> /\ selPc = "off"

GenerateOff == raw_csv_data = <<>> /\ formatted = <<>> /\ reformatted = <<>> /\ genPc = "off"

NoOutput == [type |-> "missing", text |-> <<>>]

RunOff ==
    /\ runPc = "off" /\ iterations = 0 /\ pending = 0 /\ toolCalls = 0 /\ completed = {}
    /\ lastTool = "none" /\ ended = "none"
    /\ output = NoOutput /\ outcome = "none"

BatchOff ==
    /\ pdf_files = 0 /\ future_to_pdf = <<>> /\ runEnded = <<>> /\ results = <<>>
    /\ yielded = {} /\ all_dataframes = <<>> /\ master_df = <<>> /\ batchPc = "off"

(***************************************************************************)
(* Bounds of the model.                                                    *)
(***************************************************************************)
MaxPieces == 3      \* an input text of the finalizer is made of at most this many pieces
MaxPages == 2       \* pages of a document
MaxTablesPerPage == 2   \* tables detected on one page
MaxCandidates == 3  \* candidate tables handed to the selector
MaxAnswerPieces == 2    \* an answer of the model to the selector is made of at most this many pieces
MaxBatch == 2       \* tool calls the model asks for in one message
MaxDocs == 4        \* PDF files of the directory: as many as the pool has threads
MaxRows == 1        \* data rows of the frame a run returns

(***************************************************************************)
(* Python str operations.                                                  *)
(***************************************************************************)
Whitespace == {" ", "\n", "\t"}

\* s[i-1:] (1-based i)
From(s, i) == SubSeq(s, i, Len(s))

\* s.startswith(p)
StartsWith(s, p) == Len(p) <= Len(s) /\ SubSeq(s, 1, Len(p)) = p

\* s.find(sub) + 1, scanning from position i: the first match at or after i, 0 if none
RECURSIVE FindFrom(_, _, _)
FindFrom(s, sub, i) ==
    IF i + Len(sub) - 1 > Len(s) THEN 0
    ELSE IF SubSeq(s, i, i + Len(sub) - 1) = sub THEN i
    ELSE FindFrom(s, sub, i + 1)

\* sub in s
Contains(s, sub) == FindFrom(s, sub, 1) # 0

\* s.replace(old, new): non-overlapping occurrences, left to right (old non-empty)
RECURSIVE Replace(_, _, _)
Replace(s, old, new) ==
    IF s = <<>> THEN <<>>
    ELSE IF StartsWith(s, old) THEN new \o Replace(From(s, Len(old) + 1), old, new)
    ELSE <<Head(s)>> \o Replace(Tail(s), old, new)

RECURSIVE LStrip(_)
LStrip(s) == IF s # <<>> /\ Head(s) \in Whitespace THEN LStrip(Tail(s)) ELSE s

RECURSIVE RStrip(_)
RStrip(s) ==
    IF s # <<>> /\ s[Len(s)] \in Whitespace THEN RStrip(SubSeq(s, 1, Len(s) - 1)) ELSE s

\* s.strip()
Strip(s) == RStrip(LStrip(s))

\* "".join(parts)
RECURSIVE Concat(_)
Concat(parts) == IF parts = <<>> THEN <<>> ELSE Head(parts) \o Concat(Tail(parts))

\* all sequences over S of length at most n
SeqsUpTo(S, n) == UNION {[1..k -> S] : k \in 0..n}

(***************************************************************************)
(* Text constants of the source.                                           *)
(***************************************************************************)
Header == <<"p", "r", "i", "m", "a", "r", "y", "_", "s", "u", "b", "m", "a", "r", "k", "e", "t">>

\* The backquote character (written as a name: the character cannot appear in a
\* TLA+ string).
Backquote == "BQ"

\* the code-fence marker, three backquotes
Fence == <<Backquote, Backquote, Backquote>>

ErrNoHeader ==
    <<"E", "r", "r", "o", "r", ":", " ", "C", "o", "u", "l", "d", " ", "n", "o", "t", " ",
      "f", "i", "n", "d", " ", "t", "h", "e", " ", "C", "S", "V", " ", "h", "e", "a", "d",
      "e", "r", " ", "i", "n", " ", "t", "h", "e", " ", "f", "i", "n", "a", "l", " ", "o",
      "u", "t", "p", "u", "t", ".">>

(***************************************************************************)
(* Tool 4, FinalOutputTool._run.                                           *)
(***************************************************************************)
\* generated_csv.index("primary_submarket") + 1; 0 stands for the ValueError
HeaderIndexLast(text) ==
    IF ~Contains(text, Header) THEN 0
    ELSE CHOOSE i \in 1..Len(text) :
            /\ StartsWith(From(text, i), Header)
            /\ \A j \in (i + 1)..Len(text) : ~StartsWith(From(text, j), Header)

HeaderIndex(text) == FindFrom(text, Header, 1)

\* clean_csv.replace(Fence, "")
RemoveFences(text) == Replace(text, Fence, <<>>)

FinalOutputTool_run(text) ==
    LET start_index == HeaderIndex(text) IN
    IF start_index = 0 THEN ErrNoHeader
    ELSE Strip(RemoveFences(From(text, start_index)))

\* The texts handed to the finalizer: concatenations of a few pieces, among them
\* the header token, a proper prefix of it, code fences and lone backticks.
HeaderPrefix == SubSeq(Header, 1, 8)

Pieces == {Header, HeaderPrefix, Fence, <<Backquote>>, <<" ">>, <<"\n">>, <<"x">>, <<",">>}

FinalInputs == {Concat(ps) : ps \in SeqsUpTo(Pieces, MaxPieces)}

FinalInit ==
    /\ generated_csv \in FinalInputs
    /\ clean_csv = <<>>
    /\ finPc = "call"
    /\ ExtractOff /\ SelectOff /\ GenerateOff /\ RunOff /\ BatchOff

FinalOutputRun ==
    /\ finPc = "call"
    /\ clean_csv' = FinalOutputTool_run(generated_csv)
    /\ finPc' = "done"
    /\ UNCHANGED <<generated_csv, extVars, selVars, genVars, runVars, batVars>>

FinalNext == FinalOutputRun

FinalSpec == FinalInit /\ [][FinalNext]_vars

(***************************************************************************)
(* C1: the finalizer returns the error text exactly when the input holds   *)
(* no 'primary_submarket'; otherwise the result starts with the header     *)
(* token, holds no code fence, has no surrounding whitespace, and is the   *)
(* input from the FIRST occurrence of the token on, fences and surrounding *)
(* whitespace aside (its other characters are kept, in order).             *)
(***************************************************************************)
\* the characters of s that are neither backticks nor whitespace
RECURSIVE Solid(_)
Solid(s) ==
    IF s = <<>> THEN <<>>
    ELSE IF Head(s) \in Whitespace \cup {Backquote} THEN Solid(Tail(s))
    ELSE <<Head(s)>> \o Solid(Tail(s))

\* the least position at which the header token occurs
FirstOccurrence(text) ==
    CHOOSE i \in 1..Len(text) :
        /\ StartsWith(From(text, i), Header)
        /\ \A j \in 1..(i - 1) : ~StartsWith(From(text, j), Header)

HasHeader(text) == \E i \in 1..Len(text) : StartsWith(From(text, i), Header)

C1_Finalizer ==
    finPc = "done" =>
        IF ~HasHeader(generated_csv)
        THEN clean_csv = ErrNoHeader
        ELSE /\ StartsWith(clean_csv, Header)
             /\ \A i \in 1..Len(clean_csv) : ~StartsWith(From(clean_csv, i), Fence)
             /\ clean_csv[1] \notin Whitespace
             /\ clean_csv[Len(clean_csv)] \notin Whitespace
             /\ Solid(clean_csv) = Solid(From(generated_csv, FirstOccurrence(generated_csv)))
             /\ Len(clean_csv) <= Len(generated_csv) - FirstOccurrence(generated_csv) + 1

\* a header found after a preamble, with a fence after it and trailing whitespace removed
C1_Witness ==
    /\ finPc = "done"
    /\ HasHeader(generated_csv)
    /\ FirstOccurrence(generated_csv) > 1
    /\ Contains(generated_csv, Fence)
    /\ clean_csv = Header

(***************************************************************************)
(* Tool 1, PDFTableExtractorTool._run.                                     *)
(*                                                                         *)
(* A table is a sequence of rows, a row a sequence of cells, a cell a text *)
(* or None (pdfplumber gives None for a cell without text).                *)
(***************************************************************************)
\* The None object: a one-element tuple holding a token that is no character, so
\* that it equals no text.
None == <<"NoneObject">>

\* str(x)
Str(x) == IF x = None THEN <<"N", "o", "n", "e">> ELSE x

Unnamed == <<"U", "n", "n", "a", "m", "e", "d">>

RECURSIVE MaxLen(_)
MaxLen(rows) ==
    IF rows = <<>> THEN 0
    ELSE LET m == MaxLen(Tail(rows)) IN IF Len(Head(rows)) > m THEN Len(Head(rows)) ELSE m

\* pd.DataFrame(table_data[1:], columns=headers) raises ValueError when the data
\* (rows padded to the longest) is not as wide as the headers; df.columns[0]
\* raises IndexError when there is no column.
ConversionRaises(table_data) ==
    LET headers == table_data[1] IN
    \/ MaxLen(Tail(table_data)) # Len(headers)
    \/ Len(headers) = 0

\* the rows of the DataFrame: short rows padded with None
FrameRows(table_data) ==
    LET n == Len(table_data[1]) IN
    [r \in 1..(Len(table_data) - 1) |->
        [c \in 1..n |-> IF c <= Len(table_data[r + 1]) THEN table_data[r + 1][c] ELSE None]]

\* df.columns[0] is None or 'Unnamed' in str(df.columns[0])
NeedsRename(columns) == columns[1] = None \/ Contains(Str(columns[1]), Unnamed)

\* df.rename(columns={df.columns[0]: 'primary_submarket'}): the mapping is applied
\* to every label equal to the first one
RenameColumns(columns) ==
    [c \in 1..Len(columns) |-> IF columns[c] = columns[1] THEN Header ELSE columns[c]]

FrameColumns(headers) == IF NeedsRename(headers) THEN RenameColumns(headers) ELSE headers

\* csv.QUOTE_MINIMAL: a field holding the delimiter, the quote character or a line
\* end is quoted, its quote characters doubled
NeedsQuote(field) == \E i \in 1..Len(field) : field[i] \in {",", "\"", "\n", "\r"}

CsvField(cell) ==
    LET field == IF cell = None THEN <<>> ELSE cell IN
    IF NeedsQuote(field) THEN <<"\"">> \o Replace(field, <<"\"">>, <<"\"", "\"">>) \o <<"\"">>
    ELSE field

\* one line of the CSV: the fields joined by commas, then the line end
RECURSIVE CsvJoin(_)
CsvJoin(cells) ==
    IF cells = <<>> THEN <<>>
    ELSE IF Len(cells) = 1 THEN CsvField(cells[1])
    ELSE CsvField(cells[1]) \o <<",">> \o CsvJoin(Tail(cells))

CsvLine(cells) == CsvJoin(cells) \o <<"\n">>

\* df.to_csv(index=False)
ToCsv(columns, rows) ==
    CsvLine(columns) \o Concat([r \in 1..Len(rows) |-> CsvLine(rows[r])])

\* lines 34-40: one table to its CSV text
TableToCsv(table_data) == ToCsv(FrameColumns(table_data[1]), FrameRows(table_data))

\* line 33: table_data and len(table_data) > 1
Kept(table_data) == table_data # <<>> /\ Len(table_data) > 1

\* lines 31-41: the loop over the tables of all pages, in order; a conversion that
\* raises leaves the loop
RECURSIVE ExtractLoop(_, _)
ExtractLoop(tables, acc) ==
    IF tables = <<>> THEN [raised |-> FALSE, csvs |-> acc]
    ELSE IF ~Kept(Head(tables)) THEN ExtractLoop(Tail(tables), acc)
    ELSE IF ConversionRaises(Head(tables)) THEN [raised |-> TRUE, csvs |-> acc]
    ELSE ExtractLoop(Tail(tables), Append(acc, TableToCsv(Head(tables))))

\* The outcomes of the path: "no_path" (empty or None), "not_found"
\* (os.path.exists is false), "open_fails" (pdfplumber.open or a page's
\* extract_tables raises), "readable".
AccessKinds == {"no_path", "not_found", "open_fails", "readable"}

PDFTableExtractorTool_run(acc, doc) ==
    IF acc \in {"no_path", "not_found"} THEN <<>>                \* line 26
    ELSE IF acc = "open_fails" THEN <<>>                         \* lines 46-48
    ELSE LET r == ExtractLoop(Concat(doc), <<>>) IN
         IF r.raised THEN <<>>                                   \* lines 46-48
         ELSE r.csvs                                             \* line 45

\* The tables a page may hold.
Submarket == <<"S", "u", "b", "m", "a", "r", "k", "e", "t">>
Vacancy == <<"V", "a", "c", "a", "n", "c", "y">>
Unnamed0 == <<"U", "n", "n", "a", "m", "e", "d", ":", " ", "0">>
SE == <<"S", "E">>
NW == <<"N", "W">>
Pct == <<"5", "%">>

TableUniverse ==
    { <<>>,                                                   \* no row
      << <<Submarket, Vacancy>> >>,                           \* a header alone
      << <<None, Vacancy>>, <<SE, Pct>> >>,                   \* first header missing
      << <<<<>>, Vacancy>>, <<SE, Pct>> >>,                   \* first header blank
      << <<Unnamed0, Vacancy>>, <<SE, Pct>> >>,               \* first header a placeholder
      << <<Submarket, Vacancy>>, <<SE, Pct>> >>,
      << <<None, None>>, <<SE, Pct>> >>,                      \* two headers missing
      << <<Submarket, Vacancy>>, <<SE, None>>, <<NW>> >>,     \* a short row
      << <<Submarket, Vacancy>>, <<NW, Pct, Pct>> >> }        \* a row wider than the header

PageUniverse == SeqsUpTo(TableUniverse, MaxTablesPerPage)

Documents == SeqsUpTo(PageUniverse, MaxPages)

ExtractInit ==
    /\ access \in AccessKinds
    /\ document \in (IF access = "readable" THEN Documents ELSE {<<>>})
    /\ all_tables_as_csv = <<>>
    /\ extPc = "call"
    /\ FinalOff /\ SelectOff /\ GenerateOff /\ RunOff /\ BatchOff

ExtractRun ==
    /\ extPc = "call"
    /\ all_tables_as_csv' = PDFTableExtractorTool_run(access, document)
    /\ extPc' = "done"
    /\ UNCHANGED <<access, document, finVars, selVars, genVars, runVars, batVars>>

ExtractNext == ExtractRun

ExtractSpec == ExtractInit /\ [][ExtractNext]_vars

(***************************************************************************)
(* Reading a candidate back: the fields of its header line and its data    *)
(* lines (the cells of the model hold no comma, quote or line end).        *)
(***************************************************************************)
LineEnd(csv) == FindFrom(csv, <<"\n">>, 1)

FirstLine(csv) == SubSeq(csv, 1, LineEnd(csv) - 1)

DataLines(csv) == From(csv, LineEnd(csv) + 1)

RECURSIVE SplitFields(_)
SplitFields(line) ==
    LET k == FindFrom(line, <<",">>, 1) IN
    IF k = 0 THEN <<line>>
    ELSE <<SubSeq(line, 1, k - 1)>> \o SplitFields(From(line, k + 1))

HeaderFields(csv) == SplitFields(FirstLine(csv))

\* the detected tables of the document in page order, then table order
DetectedTables == Concat(document)

KeptTables == SelectSeq(DetectedTables, Kept)

Converts(table_data) == Kept(table_data) /\ ~ConversionRaises(table_data)

ConvertibleTables == SelectSeq(DetectedTables, Converts)

\* the data lines the rows of a table come to
ExpectedData(table_data) ==
    Concat([r \in 1..(Len(table_data) - 1) |-> CsvLine(FrameRows(table_data)[r])])

\* a first header cell that is blank, missing or a placeholder
BlankFirstHeader(table_data) ==
    \/ table_data[1][1] = None
    \/ table_data[1][1] = <<>>
    \/ StartsWith(table_data[1][1], Unnamed)

ExtractedReadable == extPc = "done" /\ access = "readable"

(***************************************************************************)
(* C2: every emitted table whose raw first header cell is blank, missing   *)
(* or a placeholder has 'primary_submarket' as its first header, and its   *)
(* other headers are the raw ones.                                         *)
(***************************************************************************)
C2_BlankHeaderRepaired ==
    (ExtractedReadable /\ Len(all_tables_as_csv) = Len(KeptTables)) =>
        \A i \in 1..Len(KeptTables) :
            BlankFirstHeader(KeptTables[i]) =>
                HeaderFields(all_tables_as_csv[i]) =
                    <<Header>> \o [c \in 1..(Len(KeptTables[i][1]) - 1) |->
                                      CsvField(KeptTables[i][1][c + 1])]

(***************************************************************************)
(* C3: for a readable document the candidates are the tables with at least *)
(* two rows, one candidate each, in page order then table order, none      *)
(* missing, duplicated or reordered. (Read in the claim's favour: a table  *)
(* whose conversion raises is not counted among them; C4 is about those.)  *)
(***************************************************************************)
C3_OneCandidatePerTable ==
    ExtractedReadable =>
        /\ Len(all_tables_as_csv) = Len(ConvertibleTables)
        /\ \A i \in 1..Len(ConvertibleTables) :
              DataLines(all_tables_as_csv[i]) = ExpectedData(ConvertibleTables[i])

(***************************************************************************)
(* C4: when the conversion of a table raises, the other tables with at     *)
(* least two rows are still in the returned candidate set, in order.       *)
(***************************************************************************)
C4_OnlyFailingTableSkipped ==
    (ExtractedReadable /\ \E i \in 1..Len(KeptTables) : ConversionRaises(KeptTables[i])) =>
        \A i \in 1..Len(ConvertibleTables) :
            \E j \in 1..Len(all_tables_as_csv) :
                DataLines(all_tables_as_csv[j]) = ExpectedData(ConvertibleTables[i])

(***************************************************************************)
(* C5: the outcome for a missing or unreadable document differs from the   *)
(* outcome for a readable document with no candidate table.                *)
(***************************************************************************)
C5_AccessErrorDistinct ==
    (extPc = "done" /\ access # "readable") =>
        all_tables_as_csv # PDFTableExtractorTool_run("readable", <<>>)

(***************************************************************************)
(* Tool 2, TableSelectorTool._run.                                         *)
(***************************************************************************)
Digits == {"0", "1", "2", "3", "4", "5", "6", "7", "8", "9"}

DigitValue(d) == CASE d = "0" -> 0 [] d = "1" -> 1 [] d = "2" -> 2 [] d = "3" -> 3
                   [] d = "4" -> 4 [] d = "5" -> 5 [] d = "6" -> 6 [] d = "7" -> 7
                   [] d = "8" -> 8 [] d = "9" -> 9

\* ''.join(filter(str.isdigit, text))
IsDigit(ch) == ch \in Digits

DigitsOf(text) == SelectSeq(text, IsDigit)

\* int(digits), digits non-empty (int('') raises ValueError)
RECURSIVE ToInt(_)
ToInt(digits) ==
    IF digits = <<>> THEN 0
    ELSE 10 * ToInt(SubSeq(digits, 1, Len(digits) - 1)) + DigitValue(digits[Len(digits)])

ErrInvalidNumber ==
    <<"E", "r", "r", "o", "r", ":", " ", "L", "L", "M", " ", "r", "e", "t", "u", "r", "n",
      "e", "d", " ", "a", "n", " ", "i", "n", "v", "a", "l", "i", "d", " ", "t", "a", "b",
      "l", "e", " ", "n", "u", "m", "b", "e", "r", ".">>

ErrNoNumber ==
    <<"E", "r", "r", "o", "r", ":", " ", "C", "o", "u", "l", "d", " ", "n", "o", "t", " ",
      "d", "e", "t", "e", "r", "m", "i", "n", "e", " ", "t", "h", "e", " ", "c", "o", "r",
      "r", "e", "c", "t", " ", "t", "a", "b", "l", "e", " ", "f", "r", "o", "m", " ", "t",
      "h", "e", " ", "L", "L", "M", "'", "s", " ", "r", "e", "s", "p", "o", "n", "s", "e",
      ".">>

TableSelectorTool_runNoMinusOne(tables, content) ==
    LET digits == DigitsOf(content) IN
    IF digits = <<>> THEN ErrNoNumber
    ELSE LET table_index == ToInt(digits) IN
         IF 0 <= table_index /\ table_index < Len(tables)
         THEN tables[table_index + 1]
         ELSE ErrInvalidNumber

\* lines 74-81, content the answer of the model to the prompt
TableSelectorTool_run(tables, content) ==
    LET digits == DigitsOf(content) IN
    IF digits = <<>> THEN ErrNoNumber                               \* ValueError, line 81
    ELSE LET table_index == ToInt(digits) - 1 IN
         IF 0 <= table_index /\ table_index < Len(tables)
         THEN tables[table_index + 1]                               \* line 78
         ELSE ErrInvalidNumber                                      \* line 79

\* The candidates handed to the selector: CSV texts as the extractor writes them.
BySize == <<"b", "y", " ", "S", "i", "z", "e">>
NotableProjects ==
    <<"N", "o", "t", "a", "b", "l", "e", " ", "P", "r", "o", "j", "e", "c", "t", "s">>

CandidateUniverse ==
    { ToCsv(<<Header, Vacancy>>, << <<SE, Pct>> >>),
      ToCsv(<<Submarket, Vacancy>>, << <<NW, Pct>> >>),
      ToCsv(<<BySize, Vacancy>>, << <<SE, Pct>> >>),
      ToCsv(<<NotableProjects, Submarket>>, << <<NW, SE>> >>) }

\* The answers of the model: a number, a number in a sentence, several numbers, none.
AnswerPieces == {<<"0">>, <<"1">>, <<"2">>, <<"3">>, <<"4">>, <<"T", "a", "b", "l", "e", " ">>, <<"?">>}

Answers == {Concat(ps) : ps \in SeqsUpTo(AnswerPieces, MaxAnswerPieces)}

SelectInit ==
    /\ tables_as_csv \in SeqsUpTo(CandidateUniverse, MaxCandidates)
    /\ response = <<>>
    /\ selected = <<>>
    /\ selPc = "call"
    /\ FinalOff /\ ExtractOff /\ GenerateOff /\ RunOff /\ BatchOff

SelectRun ==
    /\ selPc = "call"
    /\ \E content \in Answers :
          /\ response' = content
          /\ selected' = TableSelectorTool_run(tables_as_csv, content)
    /\ selPc' = "done"
    /\ UNCHANGED <<tables_as_csv, finVars, extVars, genVars, runVars, batVars>>

SelectNext == SelectRun

SelectSpec == SelectInit /\ [][SelectNext]_vars

(***************************************************************************)
(* C6: the selector never returns a candidate whose header holds 'by Size' *)
(* or 'Notable Projects' when the set holds a candidate without them.      *)
(***************************************************************************)
Denylisted(csv) ==
    Contains(FirstLine(csv), BySize) \/ Contains(FirstLine(csv), NotableProjects)

IsCandidate(text) == \E i \in 1..Len(tables_as_csv) : tables_as_csv[i] = text

C6_DenylistHonoured ==
    (selPc = "done" /\ \E i \in 1..Len(tables_as_csv) : ~Denylisted(tables_as_csv[i])) =>
        ~(IsCandidate(selected) /\ Denylisted(selected))

(***************************************************************************)
(* C12: the selector returns an error text, or the candidate at position   *)
(* n-1 (counted from 0) of the list, n the number the digits of the answer *)
(* form, with 1 <= n <= number of candidates; what it returns that is no   *)
(* error is an element of the list, and for an empty list it is an error.  *)
(***************************************************************************)
DigitPositions(text) == {i \in 1..Len(text) : text[i] \in Digits}

RECURSIVE Power10(_)
Power10(k) == IF k = 0 THEN 1 ELSE 10 * Power10(k - 1)

\* the number the digits of the text form, read in order: each digit weighs ten
\* to the number of digits after it
RECURSIVE WeighedSum(_, _)
WeighedSum(text, positions) ==
    IF positions = {} THEN 0
    ELSE LET i == CHOOSE j \in positions : TRUE IN
         DigitValue(text[i]) * Power10(Cardinality({j \in DigitPositions(text) : j > i}))
            + WeighedSum(text, positions \ {i})

ResponseNumber(text) == WeighedSum(text, DigitPositions(text))

SelectorErrors == {ErrNoNumber, ErrInvalidNumber}

C12_SelectorResult ==
    selPc = "done" =>
        LET n == ResponseNumber(response) IN
        /\ \/ selected \in SelectorErrors
           \/ /\ DigitPositions(response) # {}
              /\ 1 <= n /\ n <= Len(tables_as_csv)
              /\ selected = tables_as_csv[n]
        /\ selected \in SelectorErrors \/ IsCandidate(selected)
        /\ tables_as_csv = <<>> => selected \in SelectorErrors

\* an answer that holds more than digits picks the second of two different candidates
C12_Witness ==
    /\ selPc = "done"
    /\ Len(tables_as_csv) >= 2
    /\ tables_as_csv[1] # tables_as_csv[2]
    /\ DigitPositions(response) # 1..Len(response)
    /\ ResponseNumber(response) = 2
    /\ selected = tables_as_csv[2]

(***************************************************************************)
(* Tool 3, CSVGeneratorTool._run: the prompt carries the rules and the     *)
(* table, the model's answer is returned with its surrounding whitespace   *)
(* removed.                                                                *)
(***************************************************************************)
\* line 191, content the answer of the model to the formatting prompt
CSVGeneratorTool_run(raw, content) == Strip(content)

CsvWord == <<"c", "s", "v", "\n">>

\* The answers of the model to the formatting prompt: a fenced block as the prompt
\* asks, a bare table, a table after a sentence, another table, nothing.
GeneratedAnswers ==
    { Fence \o CsvWord \o ToCsv(<<Header, Vacancy>>, << <<SE, Pct>> >>) \o Fence \o <<"\n">>,
      ToCsv(<<Header, Vacancy>>, << <<SE, Pct>> >>),
      ToCsv(<<Header, Vacancy>>, << <<SE, <<"0", ".", "0", "5">>>> >>),
      <<"O", "K", ":", " ">> \o ToCsv(<<Header, Vacancy>>, << <<SE, Pct>> >>),
      ToCsv(<<Header, Vacancy>>, << <<SE, <<>>>> >>),
      <<" ">> }

GenerateInit ==
    /\ raw_csv_data \in CandidateUniverse
    /\ formatted = <<>>
    /\ reformatted = <<>>
    /\ genPc = "call"
    /\ FinalOff /\ ExtractOff /\ SelectOff /\ RunOff /\ BatchOff

\* the formatting step on a selected table
GenerateRun ==
    /\ genPc = "call"
    /\ \E content \in GeneratedAnswers :
          formatted' = CSVGeneratorTool_run(raw_csv_data, content)
    /\ genPc' = "once"
    /\ UNCHANGED <<raw_csv_data, reformatted, finVars, extVars, selVars, runVars, batVars>>

\* the formatting step on its own output
GenerateAgain ==
    /\ genPc = "once"
    /\ \E content \in GeneratedAnswers :
          reformatted' = CSVGeneratorTool_run(formatted, content)
    /\ genPc' = "twice"
    /\ UNCHANGED <<raw_csv_data, formatted, finVars, extVars, selVars, runVars, batVars>>

GenerateNext == GenerateRun \/ GenerateAgain

GenerateSpec == GenerateInit /\ [][GenerateNext]_vars

(***************************************************************************)
(* C7: the cleaning step is idempotent: applied to its own output it       *)
(* returns that output, clean(clean(x)) = clean(x).                        *)
(***************************************************************************)
C7_CleanIdempotent == genPc = "twice" => reformatted = formatted

(***************************************************************************)
(* The agent executor of create_pdf_agent and process_pdf_with_agent.      *)
(*                                                                         *)
(* The executor loops: the model is asked for its next message, which is a *)
(* final answer, one or more tool calls, or unparseable; the tools it      *)
(* names are run in the order given and their results added to the         *)
(* scratchpad. Which tool is called, in which order, with which arguments, *)
(* and what the final answer says, is the model's choice.                  *)
(***************************************************************************)
max_iterations == 15

ExtractTool == "extract_all_tables_from_pdf"
SelectTool == "select_submarket_statistics_table"
GenerateTool == "generate_formatted_csv"
FinalTool == "create_final_csv_output"

\* the stages in pipeline order: Extract, Select, Map and Clean, Finalize
Tools == <<ExtractTool, SelectTool, GenerateTool, FinalTool>>

ToolNames == {Tools[i] : i \in 1..Len(Tools)}

\* How a tool call can end: "ok" (a result), "error" (an error result: the empty
\* list of the extractor, an 'Error: ...' text) or "raises" (llm.invoke raises).
ToolOutcomes(tool) ==
    CASE tool = ExtractTool -> {"ok", "error"}
      [] tool = SelectTool -> {"ok", "error", "raises"}
      [] tool = GenerateTool -> {"ok", "raises"}
      [] tool = FinalTool -> {"ok", "error"}

Calls == {c \in [tool : ToolNames, ends : {"ok", "error", "raises"}] : c.ends \in ToolOutcomes(c.tool)}

\* the stages before a tool's stage
Predecessors(tool) ==
    {Tools[j] : j \in {k \in 1..Len(Tools) : \E i \in 1..Len(Tools) : Tools[i] = tool /\ k < i}}

ShouldContinueOffByOne(n) == n <= max_iterations

\* the loop condition of the executor
ShouldContinue(n) == n < max_iterations

StopMessage ==
    <<"A", "g", "e", "n", "t", " ", "s", "t", "o", "p", "p", "e", "d", " ", "d", "u", "e",
      " ", "t", "o", " ", "i", "t", "e", "r", "a", "t", "i", "o", "n", " ", "l", "i", "m",
      "i", "t", " ", "o", "r", " ", "t", "i", "m", "e", " ", "l", "i", "m", "i", "t", ".">>

TextOutput(text) == [type |-> "str", text |-> text]

\* What the final answer of the model can be: the finalizer's CSV, the same after
\* white space, after a sentence, an error text of a stage, the empty text, a
\* list of content parts (no str); or no 'output' key at all.
FinalCsv == Header \o <<",">> \o Vacancy \o <<"\n">> \o SE \o <<",">> \o Pct

FinishOutputs ==
    { TextOutput(FinalCsv),
      TextOutput(<<" ", "\n">> \o FinalCsv),
      TextOutput(<<"O", "K", ":", " ">> \o FinalCsv),
      TextOutput(ErrNoHeader),
      TextOutput(<<>>),
      [type |-> "list", text |-> <<>>],
      NoOutput }

\* result.get('output', '')
CsvOutputString(o) == IF o.type = "missing" THEN TextOutput(<<>>) ELSE o

\* bool(value)
Truthy(o) == IF o.type = "str" THEN o.text # <<>> ELSE TRUE

IsValidOutputNoHeaderTest(o) ==
    LET csv_output_string == CsvOutputString(o) IN
    /\ Truthy(csv_output_string)
    /\ csv_output_string.type = "str"

\* main.py line 25
IsValidOutput(o) ==
    LET csv_output_string == CsvOutputString(o) IN
    /\ Truthy(csv_output_string)
    /\ csv_output_string.type = "str"
    /\ StartsWith(Strip(csv_output_string.text), Header)

\* main.py lines 22-40 on the result of invoke: a DataFrame when the output passes
\* the test of line 25 and pd.read_csv parses it (it raises otherwise), else None
ProcessResult(o, parsed) == IF IsValidOutput(o) /\ parsed THEN "success" ELSE "failure"

RunInit ==
    /\ runPc = "invoke" /\ iterations = 0 /\ pending = 0 /\ toolCalls = 0 /\ completed = {}
    /\ lastTool = "none" /\ ended = "none"
    /\ output = NoOutput /\ outcome = "none"
    /\ FinalOff /\ ExtractOff /\ SelectOff /\ GenerateOff /\ BatchOff

OthersUnchanged == UNCHANGED <<finVars, extVars, selVars, genVars, batVars>>

\* the model gives its final answer: invoke returns it, lines 22-33 decide
AgentFinish ==
    /\ runPc = "invoke" /\ ShouldContinue(iterations)
    /\ \E o \in FinishOutputs : \E parsed \in BOOLEAN :
          /\ output' = o
          /\ outcome' = ProcessResult(o, parsed)
    /\ runPc' = "done" /\ ended' = "finish"
    /\ UNCHANGED <<iterations, pending, toolCalls, completed, lastTool>>
    /\ OthersUnchanged

\* the model asks for one or more tool calls
AgentActs ==
    /\ runPc = "invoke" /\ ShouldContinue(iterations)
    /\ \E n \in 1..MaxBatch : pending' = n
    /\ runPc' = "tools"
    /\ UNCHANGED <<iterations, toolCalls, completed, lastTool, ended, output, outcome>>
    /\ OthersUnchanged

\* the next tool call of the message is run: any tool, whatever ran before. A call
\* that raises ends invoke with the exception (main.py lines 35-40); after the
\* last call of the message the iteration is counted.
ToolCall ==
    /\ runPc = "tools" /\ pending > 0
    /\ \E call \in Calls :
          /\ lastTool' = call.tool
          /\ toolCalls' = toolCalls + 1
          /\ completed' = IF call.ends = "ok" THEN completed \cup {call.tool} ELSE completed
          /\ IF call.ends = "raises"
             THEN /\ runPc' = "done" /\ ended' = "raised" /\ outcome' = "failure"
                  /\ pending' = 0
                  /\ UNCHANGED iterations
             ELSE /\ pending' = pending - 1
                  /\ runPc' = IF pending = 1 THEN "invoke" ELSE "tools"
                  /\ iterations' = IF pending = 1 THEN iterations + 1 ELSE iterations
                  /\ UNCHANGED <<ended, outcome>>
    /\ UNCHANGED output
    /\ OthersUnchanged

\* the message of the model cannot be parsed: handle_parsing_errors=True feeds the
\* error back as an observation
AgentParsingError ==
    /\ runPc = "invoke" /\ ShouldContinue(iterations)
    /\ iterations' = iterations + 1
    /\ UNCHANGED <<runPc, pending, toolCalls, completed, lastTool, ended, output, outcome>>
    /\ OthersUnchanged

\* the call of the model raises (main.py lines 35-40)
AgentRaises ==
    /\ runPc = "invoke" /\ ShouldContinue(iterations)
    /\ runPc' = "done" /\ ended' = "raised" /\ outcome' = "failure"
    /\ UNCHANGED <<iterations, pending, toolCalls, completed, lastTool, output>>
    /\ OthersUnchanged

\* max_iterations reached: invoke returns the executor's own message
AgentStopped ==
    /\ runPc = "invoke" /\ ~ShouldContinue(iterations)
    /\ output' = TextOutput(StopMessage)
    /\ \E parsed \in BOOLEAN : outcome' = ProcessResult(TextOutput(StopMessage), parsed)
    /\ runPc' = "done" /\ ended' = "exhausted"
    /\ UNCHANGED <<iterations, pending, toolCalls, completed, lastTool>>
    /\ OthersUnchanged

RunNext ==
    \/ AgentFinish
    \/ AgentActs
    \/ ToolCall
    \/ AgentParsingError
    \/ AgentRaises
    \/ AgentStopped

RunSpec == RunInit /\ [][RunNext]_vars

\* Every call made in a run (the model, a tool) returns or raises.
RunFairSpec == RunSpec /\ WF_vars(RunNext)

(***************************************************************************)
(* C8, as claimed: a run is a success only when its output is a non-empty  *)
(* text that begins with 'primary_submarket'.                              *)
(***************************************************************************)
C8_SuccessOnlyOnHeaderStart ==
    outcome = "success" =>
        /\ output.type = "str"
        /\ output.text # <<>>
        /\ StartsWith(output.text, Header)

(***************************************************************************)
(* C8, amended: a run is a success only when its output is a non-empty     *)
(* text that begins with 'primary_submarket' once its leading white space  *)
(* is set aside; a run that ended with an exception or with the iteration  *)
(* budget exhausted is a failure, and every finished run is one of the two.*)
(***************************************************************************)
\* the position of the first character of text that is no white space
FirstSolid(text) ==
    CHOOSE i \in 1..(Len(text) + 1) :
        /\ \A j \in 1..(i - 1) : text[j] \in Whitespace
        /\ i <= Len(text) => text[i] \notin Whitespace

C8_SuccessOnlyOnTrimmedHeaderStart ==
    /\ outcome = "success" =>
          /\ output.type = "str"
          /\ output.text # <<>>
          /\ StartsWith(From(output.text, FirstSolid(output.text)), Header)
          /\ ended = "finish"
    /\ (runPc = "done" /\ ended \in {"raised", "exhausted"}) => outcome = "failure"
    /\ runPc = "done" => outcome \in {"success", "failure"}

\* a success on an output that has white space before the header token
C8_Witness ==
    /\ runPc = "done" /\ outcome = "success"
    /\ output.type = "str" /\ output.text # <<>>
    /\ output.text[1] \in Whitespace

(***************************************************************************)
(* C9, as claimed: a run makes at most 15 tool invocations.                *)
(***************************************************************************)
C9_AtMostBudgetInvocations == toolCalls <= max_iterations

(***************************************************************************)
(* C9, amended: every run ends, in a success or a reported failure, after  *)
(* at most 15 iterations of the executor's loop, whatever the model        *)
(* answers; an iteration is one message of the model with all the tool     *)
(* calls it asks for.                                                      *)
(***************************************************************************)
C9_EndsWithinIterations ==
    /\ [](iterations <= max_iterations)
    /\ <>[](runPc = "done" /\ outcome \in {"success", "failure"})

\* the budget is used up, after more tool calls than iterations
C9_Witness ==
    /\ runPc = "done" /\ ended = "exhausted" /\ outcome = "failure"
    /\ iterations = max_iterations
    /\ toolCalls > max_iterations

(***************************************************************************)
(* C10: no stage is invoked before its predecessors have completed         *)
(* successfully in the run, and a successful run has passed through the    *)
(* Finalize stage last.                                                    *)
(***************************************************************************)
C10_StrictStageOrder ==
    /\ lastTool # "none" => Predecessors(lastTool) \subseteq completed
    /\ outcome = "success" => (lastTool = FinalTool /\ FinalTool \in completed)

(***************************************************************************)
(* The batch of __main__ (main.py lines 52-83): one task per PDF file on a *)
(* pool of max_workers threads, the main thread collects the futures as    *)
(* they complete and combines the frames.                                  *)
(***************************************************************************)
max_workers == 4

Files == 1..pdf_files

\* What a future holds. The rows of a frame are told apart by the file they come
\* from and their position, <<file, k>>.
Pending == [kind |-> "pending", doc |-> 0, rows |-> 0]
NoneResult == [kind |-> "None", doc |-> 0, rows |-> 0]
ExceptionResult == [kind |-> "exception", doc |-> 0, rows |-> 0]
DataFrame(d, n) == [kind |-> "DataFrame", doc |-> d, rows |-> n]

\* How agent_executor.invoke can end, with what pd.read_csv does with the output
AgentRuns ==
    {[ended |-> "finish", output |-> o, parsed |-> p] : o \in FinishOutputs, p \in BOOLEAN}
        \cup {[ended |-> "exhausted", output |-> TextOutput(StopMessage), parsed |-> TRUE],
              [ended |-> "raised", output |-> NoOutput, parsed |-> TRUE]}

process_pdf_with_agentNoExcept(d, run, n) ==
    IF run.ended = "raised" THEN ExceptionResult
    ELSE IF ~IsValidOutput(run.output) THEN NoneResult
    ELSE IF ~run.parsed THEN ExceptionResult
    ELSE DataFrame(d, n)

\* lines 16-40: an exception of invoke or of read_csv is caught and None returned
process_pdf_with_agent(d, run, n) ==
    IF run.ended = "raised" THEN NoneResult                                \* lines 35-40
    ELSE IF ProcessResult(run.output, run.parsed) = "success" THEN DataFrame(d, n)
    ELSE NoneResult

\* the history kept of a run
RunKind(run) ==
    CASE run.ended = "raised" -> "raised"
      [] run.ended = "exhausted" -> "exhausted"
      [] run.ended = "finish" /\ ProcessResult(run.output, run.parsed) = "success" -> "ok"
      [] OTHER -> "invalid"

\* what the task of file d can return, with the history of its run
Returns ==
    [d \in 1..MaxDocs |->
        {[result |-> process_pdf_with_agent(d, run, n), kind |-> RunKind(run)] :
            run \in AgentRuns, n \in 0..MaxRows}]

\* result_df.empty
Empty(df) == df.rows = 0

\* the rows of a frame
Rows(df) == [k \in 1..df.rows |-> <<df.doc, k>>]

\* pd.concat(frames, ignore_index=True)
RECURSIVE pd_concat(_)
pd_concat(frames) == IF frames = <<>> THEN <<>> ELSE Rows(Head(frames)) \o pd_concat(Tail(frames))

Running == {d \in Files : future_to_pdf[d] = "running"}

\* lines 52-60: every file is submitted before the first future is collected
BatchInit ==
    /\ \E n \in 1..MaxDocs :
          /\ pdf_files = n
          /\ future_to_pdf = [d \in 1..n |-> "queued"]
          /\ runEnded = [d \in 1..n |-> "none"]
          /\ results = [d \in 1..n |-> Pending]
    /\ yielded = {} /\ all_dataframes = <<>> /\ master_df = <<>> /\ batchPc = "pool"
    /\ FinalOff /\ ExtractOff /\ SelectOff /\ GenerateOff /\ RunOff

BatchOthersUnchanged == UNCHANGED <<finVars, extVars, selVars, genVars, runVars>>

\* A thread of the pool takes the task at the head of the work queue (the tasks
\* are queued in the order of submission); there are at most max_workers threads.
TaskStart(d) ==
    /\ batchPc \in {"pool", "crashed"}
    /\ future_to_pdf[d] = "queued"
    /\ \A e \in Files : e < d => future_to_pdf[e] # "queued"
    /\ Cardinality(Running) < max_workers
    /\ future_to_pdf' = [future_to_pdf EXCEPT ![d] = "running"]
    /\ UNCHANGED <<pdf_files, runEnded, results, yielded, all_dataframes, master_df, batchPc>>
    /\ BatchOthersUnchanged

\* process_pdf_with_agent returns in its thread and the future is set
TaskReturn(d) ==
    /\ batchPc \in {"pool", "crashed"}
    /\ future_to_pdf[d] = "running"
    /\ \E r \in Returns[d] :
          /\ results' = [results EXCEPT ![d] = r.result]
          /\ runEnded' = [runEnded EXCEPT ![d] = r.kind]
    /\ future_to_pdf' = [future_to_pdf EXCEPT ![d] = "done"]
    /\ UNCHANGED <<pdf_files, yielded, all_dataframes, master_df, batchPc>>
    /\ BatchOthersUnchanged

\* lines 62-67: as_completed yields a future that is done, in no set order;
\* future.result() raises what the task raised, outside any try
Collect(d) ==
    /\ batchPc = "pool"
    /\ future_to_pdf[d] = "done"
    /\ d \notin yielded
    /\ LET result_df == results[d] IN
       IF result_df = ExceptionResult
       THEN /\ batchPc' = "crashed"
            /\ UNCHANGED <<yielded, all_dataframes>>
       ELSE /\ yielded' = yielded \cup {d}
            /\ all_dataframes' =
                  IF result_df # NoneResult /\ ~Empty(result_df)           \* line 65
                  THEN Append(all_dataframes, result_df)
                  ELSE all_dataframes
            /\ UNCHANGED batchPc
    /\ UNCHANGED <<pdf_files, future_to_pdf, runEnded, results, master_df>>
    /\ BatchOthersUnchanged

\* lines 70-83, once as_completed has yielded every future
Combine ==
    /\ batchPc = "pool"
    /\ yielded = Files
    /\ IF all_dataframes # <<>>
       THEN master_df' = pd_concat(all_dataframes) /\ batchPc' = "combined"
       ELSE master_df' = <<>> /\ batchPc' = "nodata"
    /\ UNCHANGED <<pdf_files, future_to_pdf, runEnded, results, yielded, all_dataframes>>
    /\ BatchOthersUnchanged

BatchNext ==
    \/ \E d \in Files : TaskStart(d)
    \/ \E d \in Files : TaskReturn(d)
    \/ \E d \in Files : Collect(d)
    \/ Combine

BatchSpec == BatchInit /\ [][BatchNext]_vars

\* the threads of the pool and the main thread all get to run
BatchFairSpec == BatchSpec /\ WF_vars(BatchNext)

(***************************************************************************)
(* C11: whatever the interleaving of the threads, and however the runs of  *)
(* some files fail (exception, invalid output, budget used up), the batch  *)
(* ends with every file's run completed and its result collected, and the  *)
(* combined result holds the rows of exactly the files whose run returned  *)
(* a frame that is not empty, each row once.                               *)
(***************************************************************************)
BatchEnded == batchPc \in {"combined", "nodata"}

\* the files whose run returned a success that is not empty
Successes == {d \in Files : results[d].kind = "DataFrame" /\ results[d].rows > 0}

ExpectedRows == UNION {{<<d, k>> : k \in 1..results[d].rows} : d \in Successes}

Occurrences(row) == Cardinality({i \in 1..Len(master_df) : master_df[i] = row})

BatchIsolated ==
    /\ batchPc # "crashed"
    /\ \A d \in yielded : future_to_pdf[d] = "done"
    /\ BatchEnded =>
          /\ \A d \in Files : future_to_pdf[d] = "done" /\ d \in yielded
          /\ \A i \in 1..Len(master_df) : master_df[i] \in ExpectedRows
          /\ \A row \in ExpectedRows : Occurrences(row) = 1
          /\ batchPc = "nodata" <=> Successes = {}

C11_SiblingsUnaffected == []BatchIsolated /\ <>[]BatchEnded

\* one run raised, one returned invalid output, one used up its budget, and the
\* rows of a fourth file are the combined result
C11_Witness ==
    /\ batchPc = "combined"
    /\ \E a, b, c, d \in Files :
          /\ runEnded[a] = "raised" /\ runEnded[b] = "invalid" /\ runEnded[c] = "exhausted"
          /\ runEnded[d] = "ok" /\ results[d].rows > 0
          /\ \E i \in 1..Len(master_df) : master_df[i] = <<d, 1>>

====
